---- MODULE Spec2Model ----
(***************************************************************************)
(* Stock ledger rules of api/serializers.py: ProductSerializer.create      *)
(* (recipe driven ingredient deduction inside transaction.atomic with      *)
(* select_for_update), SaleSerializer.create (per item stock deduction,    *)
(* every ORM call its own autocommitted statement),                        *)
(* InventoryChangeSerializer.validate and OrderSerializer.create.          *)
(*                                                                         *)
(* The database is the committed store (products, recipes, sales,          *)
(* saleItems, orders, orderItems) plus the row locks.  A transaction       *)
(* opened by transaction.atomic keeps its writes private (ptx[c].wstock,   *)
(* the inserted product and recipe rows) until it commits; statements      *)
(* outside a transaction change the committed store at once.               *)
(***************************************************************************)
EXTENDS Integers, Sequences, FiniteSets, TLC

VARIABLES products, recipes, nextId, locks, ptx,
          sales, saleItems, nextSaleId, stx,
          inv, orders, orderItems, otx,
          store0

vars == <<products, recipes, nextId, locks, ptx,
          sales, saleItems, nextSaleId, stx,
          inv, orders, orderItems, otx, store0>>

(* What a product creation leaves alone, what a sale leaves alone; store0 is
   the store of the initial state, kept to state the claims *)
notProduct == <<sales, saleItems, nextSaleId, stx, inv, orders, orderItems, otx, store0>>
notSale == <<recipes, nextId, locks, ptx, inv, orders, orderItems, otx, store0>>

----------------------------------------------------------------------------
(* Bounds of the model *)

NumProducts == 2
MaxStock == 2
MaxLines == 2
NumCreators == 2
NumSellers == 2

Creators == 1..NumCreators
Sellers == 1..NumSellers
InitialIds == 1..NumProducts
AllIds == 1..(NumProducts + NumCreators)

(* Python None, and a present value: dict.get(key) of an absent key *)
None == <<>>
Some(x) == <<x>>

SeqsUpTo(S, n) == UNION {[1..k -> S] : k \in 0..n}

(* The committed rows an operation can change, as one value *)
Store == [products |-> products, recipes |-> recipes,
          sales |-> sales, saleItems |-> saleItems]

EmptyMap == [x \in {} |-> 0]

(* The snapshot field of a call that has not started *)
NoStore == [products |-> EmptyMap, recipes |-> {}, sales |-> {}, saleItems |-> {}]

----------------------------------------------------------------------------
(* ProductSerializer.create *)

IdlePtx == [pc |-> "idle", stock |-> 0, price |-> 1, recipe |-> <<>>, i |-> 1,
            pid |-> 0, wstock |-> EmptyMap, pre |-> NoStore, ndeduct |-> 0]

(* validate_price: value > 0; validate_stock: value >= 0 *)
ValidPrice(value) == value > 0
ValidStock(value) == value >= 0

(* `if not ingredient or not quantity_per_unit or quantity_per_unit <= 0: continue` *)
SkipsDeduction(item_data) ==
    IF item_data.ingredient = None THEN TRUE
    ELSE IF item_data.quantity = None THEN TRUE
    ELSE IF item_data.quantity[1] = 0 THEN TRUE
    ELSE item_data.quantity[1] <= 0

(* The quantity of one unit, whatever the initial stock *)
TotalIngredientNeededPerUnit(item_data, initial_stock) ==
    item_data.quantity[1]

(* Line 159: total_ingredient_needed = quantity_per_unit * initial_stock *)
TotalIngredientNeeded(item_data, initial_stock) ==
    item_data.quantity[1] * initial_stock

(* A check that never rejects *)
IngredientShortUnchecked(available, needed) == FALSE

(* Line 164: `ingredient_to_update.stock < total_ingredient_needed` *)
IngredientShort(available, needed) == available < needed

(* The stock a query of transaction c returns for row pk: its own write, or
   else the committed row *)
TxStock(c, pk) ==
    IF pk \in DOMAIN ptx[c].wstock THEN ptx[c].wstock[pk] ELSE products[pk].stock

(* A query that takes no lock *)
LockGrantedAlways(c, pk) == TRUE

(* select_for_update(): the row lock is granted when no other transaction holds it *)
LockGranted(c, pk) == locks[pk] \in {0, c}

(* The recipe rows inserted by line 148 for product pid *)
RecipeRows(pid, recipe_data) ==
    {[product |-> pid, line |-> n, ingredient |-> recipe_data[n].ingredient,
      quantity |-> recipe_data[n].quantity] : n \in DOMAIN recipe_data}

(* The committed products with the writes of transaction c applied *)
WithWrites(c) ==
    [p \in DOMAIN products \cup {ptx[c].pid} |->
        IF p = ptx[c].pid THEN [stock |-> ptx[c].stock, price |-> ptx[c].price]
        ELSE IF p \in DOMAIN ptx[c].wstock
             THEN [products[p] EXCEPT !.stock = ptx[c].wstock[p]]
             ELSE products[p]]

ReleaseLocks(c) == [p \in DOMAIN locks |-> IF locks[p] = c THEN 0 ELSE locks[p]]

(* Leaving the `with transaction.atomic()` block by an exception keeps the
   partial writes: the behaviour without the atomic block *)
RolledBackNoAtomic(c) ==
    [products |-> WithWrites(c),
     recipes |-> recipes \cup RecipeRows(ptx[c].pid, ptx[c].recipe)]

(* Leaving the `with transaction.atomic()` block by an exception: rollback *)
RolledBack(c) == [products |-> products, recipes |-> recipes]

(* Leaving the `with transaction.atomic()` block normally: commit *)
Committed(c) ==
    [products |-> WithWrites(c),
     recipes |-> recipes \cup RecipeRows(ptx[c].pid, ptx[c].recipe)]

(* Lines 140-148: pop the recipe, read the initial stock, open the transaction,
   insert the product and its recipe links.  snapshot is what the call records
   of the store it starts from, for the claims about a call's net effect *)
CreateBegin(c, Stocks, Prices, Recipes, snapshot) ==
    /\ ptx[c].pc = "idle"
    /\ \E stock \in Stocks, price \in Prices, recipe_data \in Recipes :
         /\ ValidStock(stock) /\ ValidPrice(price)
         /\ \A n \in DOMAIN recipe_data :
               recipe_data[n].ingredient # None
                   => recipe_data[n].ingredient[1] \in DOMAIN products
         /\ ptx' = [ptx EXCEPT ![c] =
                       [pc |-> "loop", stock |-> stock, price |-> price,
                        recipe |-> recipe_data, i |-> 1, pid |-> nextId,
                        wstock |-> EmptyMap, pre |-> snapshot, ndeduct |-> 0]]
    /\ nextId' = nextId + 1
    /\ UNCHANGED <<products, recipes, locks>>

InLoop(c) ==
    /\ ptx[c].pc = "loop"
    /\ ptx[c].stock > 0
    /\ ptx[c].i <= Len(ptx[c].recipe)

(* Lines 153-157: a line without ingredient or positive quantity is skipped *)
CreateSkipLine(c) ==
    /\ InLoop(c)
    /\ SkipsDeduction(ptx[c].recipe[ptx[c].i])
    /\ ptx' = [ptx EXCEPT ![c].i = @ + 1]
    /\ UNCHANGED <<products, recipes, nextId, locks>>

(* Lines 159-171 when the locked row holds enough stock *)
CreateDeduct(c) ==
    /\ InLoop(c)
    /\ LET item_data == ptx[c].recipe[ptx[c].i]
       IN /\ ~SkipsDeduction(item_data)
          /\ LET pk == item_data.ingredient[1]
                 needed == TotalIngredientNeeded(item_data, ptx[c].stock)
             IN /\ LockGranted(c, pk)
                /\ ~IngredientShort(TxStock(c, pk), needed)
                /\ locks' = [locks EXCEPT ![pk] = c]
                /\ ptx' = [ptx EXCEPT ![c].i = @ + 1,
                                      ![c].ndeduct = @ + 1,
                                      ![c].wstock = (pk :> (TxStock(c, pk) - needed)) @@ @]
    /\ UNCHANGED <<products, recipes, nextId>>

(* Lines 162-168: the locked row holds too little: ValidationError, rollback *)
CreateInsufficient(c) ==
    /\ InLoop(c)
    /\ LET item_data == ptx[c].recipe[ptx[c].i]
       IN /\ ~SkipsDeduction(item_data)
          /\ LET pk == item_data.ingredient[1]
                 needed == TotalIngredientNeeded(item_data, ptx[c].stock)
             IN /\ LockGranted(c, pk)
                /\ IngredientShort(TxStock(c, pk), needed)
    /\ products' = RolledBack(c).products
    /\ recipes' = RolledBack(c).recipes
    /\ locks' = ReleaseLocks(c)
    /\ ptx' = [ptx EXCEPT ![c].pc = "failed", ![c].wstock = EmptyMap]
    /\ UNCHANGED nextId

(* Line 162 while another transaction holds the row lock: the database ends
   the wait with an error (deadlock victim, lock timeout), rollback *)
CreateLockError(c) ==
    /\ InLoop(c)
    /\ LET item_data == ptx[c].recipe[ptx[c].i]
       IN /\ ~SkipsDeduction(item_data)
          /\ ~LockGranted(c, item_data.ingredient[1])
    /\ products' = RolledBack(c).products
    /\ recipes' = RolledBack(c).recipes
    /\ locks' = ReleaseLocks(c)
    /\ ptx' = [ptx EXCEPT ![c].pc = "error", ![c].wstock = EmptyMap]
    /\ UNCHANGED nextId

(* Line 173: the atomic block ends, the transaction commits *)
CreateCommit(c) ==
    /\ ptx[c].pc = "loop"
    /\ ~InLoop(c)
    /\ products' = Committed(c).products
    /\ recipes' = Committed(c).recipes
    /\ locks' = ReleaseLocks(c)
    /\ ptx' = [ptx EXCEPT ![c].pc = "done", ![c].wstock = EmptyMap]
    /\ UNCHANGED nextId

----------------------------------------------------------------------------
(* SaleSerializer.create: no transaction, every statement commits at once *)

NoProduct == [id |-> 0, stock |-> 0, price |-> 0]

IdleStx == [pc |-> "idle", items |-> <<>>, k |-> 1, sale |-> 0,
            product |-> NoProduct, pre |-> NoStore]

(* A check that lets a quantity one above the stock through *)
InsufficientStockOffByOne(stock, quantity) == stock + 1 < quantity

(* Line 264: `product.stock < quantity` *)
InsufficientStock(stock, quantity) == stock < quantity

(* An UPDATE of a row waits while a transaction holds the row's lock *)
RowFree(pk) == pk \in DOMAIN locks => locks[pk] = 0

(* Lines 251-252: pop the items, insert the Sale header *)
SaleBegin(s, ItemLists, snapshot) ==
    /\ stx[s].pc = "idle"
    /\ \E items_data \in ItemLists :
         stx' = [stx EXCEPT ![s] = [pc |-> "get", items |-> items_data, k |-> 1,
                                    sale |-> nextSaleId, product |-> NoProduct,
                                    pre |-> snapshot]]
    /\ sales' = sales \cup {nextSaleId}
    /\ nextSaleId' = nextSaleId + 1
    /\ UNCHANGED <<saleItems, products>>

AtItem(s) == stx[s].pc = "get" /\ stx[s].k <= Len(stx[s].items)

(* Lines 261, 281-282: Product.DoesNotExist becomes a ValidationError *)
SaleNotFound(s) ==
    /\ AtItem(s)
    /\ stx[s].items[stx[s].k].product_id \notin DOMAIN products
    /\ stx' = [stx EXCEPT ![s].pc = "notfound"]
    /\ UNCHANGED <<sales, saleItems, nextSaleId, products>>

(* Lines 261-265: the product read holds too little stock: ValidationError *)
SaleInsufficient(s) ==
    /\ AtItem(s)
    /\ LET item_data == stx[s].items[stx[s].k]
       IN /\ item_data.product_id \in DOMAIN products
          /\ InsufficientStock(products[item_data.product_id].stock, item_data.quantity)
          /\ stx' = [stx EXCEPT ![s].pc = "insufficient",
                                ![s].product = [id |-> item_data.product_id,
                                                stock |-> products[item_data.product_id].stock,
                                                price |-> products[item_data.product_id].price]]
    /\ UNCHANGED <<sales, saleItems, nextSaleId, products>>

(* Lines 261-264: the product is read into a local object that passes the check *)
SaleGet(s) ==
    /\ AtItem(s)
    /\ LET item_data == stx[s].items[stx[s].k]
       IN /\ item_data.product_id \in DOMAIN products
          /\ ~InsufficientStock(products[item_data.product_id].stock, item_data.quantity)
          /\ stx' = [stx EXCEPT ![s].pc = "item",
                                ![s].product = [id |-> item_data.product_id,
                                                stock |-> products[item_data.product_id].stock,
                                                price |-> products[item_data.product_id].price]]
    /\ UNCHANGED <<sales, saleItems, nextSaleId, products>>

(* The SaleItem row with the product's current price *)
SaleItemRowProductPrice(s) ==
    [sale |-> stx[s].sale, line |-> stx[s].k, product |-> stx[s].product.id,
     quantity |-> stx[s].items[stx[s].k].quantity,
     price |-> stx[s].product.price]

(* The SaleItem row of lines 268-273 *)
SaleItemRow(s) ==
    [sale |-> stx[s].sale, line |-> stx[s].k, product |-> stx[s].product.id,
     quantity |-> stx[s].items[stx[s].k].quantity,
     price |-> stx[s].items[stx[s].k].price]

(* Lines 268-273: insert the SaleItem *)
SaleCreateItem(s) ==
    /\ stx[s].pc = "item"
    /\ saleItems' = saleItems \cup {SaleItemRow(s)}
    /\ stx' = [stx EXCEPT ![s].pc = "save"]
    /\ UNCHANGED <<sales, nextSaleId, products>>

(* product.save() writes the committed row's current stock less the quantity *)
SavedProductFromRow(s) ==
    [stock |-> products[stx[s].product.id].stock - stx[s].items[stx[s].k].quantity,
     price |-> stx[s].product.price]

(* Lines 276-277: product.stock -= quantity; product.save() writes the fields
   of the local object read at line 261 *)
SavedProduct(s) ==
    [stock |-> stx[s].product.stock - stx[s].items[stx[s].k].quantity,
     price |-> stx[s].product.price]

SaleSave(s) ==
    /\ stx[s].pc = "save"
    /\ RowFree(stx[s].product.id)
    /\ products' = [products EXCEPT ![stx[s].product.id] = SavedProduct(s)]
    /\ stx' = [stx EXCEPT ![s].pc = "get", ![s].k = @ + 1]
    /\ UNCHANGED <<sales, saleItems, nextSaleId>>

(* Line 284: every item is processed *)
SaleReturn(s) ==
    /\ stx[s].pc = "get"
    /\ stx[s].k > Len(stx[s].items)
    /\ stx' = [stx EXCEPT ![s].pc = "done"]
    /\ UNCHANGED <<sales, saleItems, nextSaleId, products>>

----------------------------------------------------------------------------
(* InventoryChangeSerializer.validate *)

(* A Python value of attrs['quantity']: None, a number (int or Decimal), or a
   string of characters *)
PyNone == [tag |-> "none", num |-> 0, str |-> <<>>]
PyNum(n) == [tag |-> "num", num |-> n, str |-> <<>>]
PyStr(chars) == [tag |-> "str", num |-> 0, str |-> chars]

DigitChars == <<"0", "1", "2", "3", "4", "5", "6", "7", "8", "9">>

(* The decimal digits of n >= 0 *)
RECURSIVE DigitsOf(_)
DigitsOf(n) ==
    IF n < 10 THEN <<DigitChars[n + 1]>>
    ELSE Append(DigitsOf(n \div 10), DigitChars[(n % 10) + 1])

(* str(qty) of line 215 *)
PyToStr(qty) ==
    IF qty.tag = "str" THEN qty.str
    ELSE IF qty.num < 0 THEN <<"-">> \o DigitsOf(-qty.num)
    ELSE DigitsOf(qty.num)

IsDigit(ch) == \E d \in 1..10 : DigitChars[d] = ch
DigitValue(ch) == (CHOOSE d \in 1..10 : DigitChars[d] = ch) - 1

(* The value of a string of digits *)
RECURSIVE DigitsValue(_)
DigitsValue(chars) ==
    IF chars = <<>> THEN 0
    ELSE 10 * DigitsValue(SubSeq(chars, 1, Len(chars) - 1))
         + DigitValue(chars[Len(chars)])

AllDigits(chars) == chars # <<>> /\ \A n \in 1..Len(chars) : IsDigit(chars[n])

(* Decimal(text) of line 215: an optional sign and digits, or InvalidOperation *)
ParseDecimal(text) ==
    IF text # <<>> /\ text[1] \in {"-", "+"}
    THEN IF AllDigits(Tail(text))
         THEN [ok |-> TRUE,
               value |-> IF text[1] = "-" THEN 0 - DigitsValue(Tail(text))
                         ELSE DigitsValue(Tail(text))]
         ELSE [ok |-> FALSE, value |-> 0]
    ELSE IF AllDigits(text)
         THEN [ok |-> TRUE, value |-> DigitsValue(text)]
         ELSE [ok |-> FALSE, value |-> 0]

(* The absolute value taken of an exit only *)
StoredQuantityOfExit(change_type, qty_decimal) ==
    IF change_type = "Salida" /\ qty_decimal < 0 THEN 0 - qty_decimal ELSE qty_decimal

(* Lines 219-225: nothing is done for a 'Salida'; a negative quantity becomes
   its absolute value *)
StoredQuantity(change_type, qty_decimal) ==
    IF qty_decimal < 0 THEN 0 - qty_decimal ELSE qty_decimal

(* Lines 206-228: the attrs returned, or the ValidationError *)
Validate(attrs) ==
    IF attrs.quantity.tag = "none"
    THEN [ok |-> FALSE, attrs |-> attrs]
    ELSE LET parsed == ParseDecimal(PyToStr(attrs.quantity))
         IN IF ~parsed.ok
            THEN [ok |-> FALSE, attrs |-> attrs]
            ELSE [ok |-> TRUE,
                  attrs |-> [attrs EXCEPT
                                !.quantity = PyNum(StoredQuantity(attrs.type, parsed.value))]]

(* input and denotes record the submitted attrs and the number their quantity
   stands for (None: absent, or no number), to state the claims *)
IdleInv == [pc |-> "idle", input |-> [type |-> "Entrada", quantity |-> PyNone],
            denotes |-> None,
            attrs |-> [type |-> "Entrada", quantity |-> PyNone], runs |-> 0]

(* validate() is run on the submitted attrs, and again on the attrs it returned
   (a record that was normalized before) *)
InventoryValidate ==
    /\ inv.pc \in {"input", "valid"}
    /\ inv.runs < 2
    /\ Validate(inv.attrs).ok
    /\ inv' = [inv EXCEPT !.pc = "valid", !.attrs = Validate(inv.attrs).attrs,
                          !.runs = @ + 1]

(* validate() raises the ValidationError: nothing is returned to be stored *)
InventoryReject ==
    /\ inv.pc = "input"
    /\ ~Validate(inv.attrs).ok
    /\ inv' = [inv EXCEPT !.pc = "rejected", !.runs = @ + 1]

----------------------------------------------------------------------------
(* OrderSerializer.create *)

IdleOtx == [pc |-> "idle", items |-> <<>>, payload_total |-> 0, k |-> 1,
            total |-> 0, order |-> 0]

(* dict.get(key, default) *)
GetOr(value, default) == IF value = None THEN default ELSE value[1]

(* The unit price alone *)
LineTotalUnitOnly(qty, unit) == unit

(* Line 346: line_total = qty * unit *)
LineTotal(qty, unit) == qty * unit

(* Lines 340-342: pop the items, insert the Order with the payload's fields *)
OrderBegin(ItemLists, Totals) ==
    /\ otx.pc = "idle"
    /\ \E items_data \in ItemLists, total_amount \in Totals :
         /\ otx' = [pc |-> "items", items |-> items_data,
                    payload_total |-> total_amount, k |-> 1, total |-> 0, order |-> 1]
         /\ orders' = (1 :> [total_amount |-> total_amount]) @@ orders
    /\ UNCHANGED orderItems

(* Lines 343-348: one item of the loop *)
OrderAddItem ==
    /\ otx.pc = "items"
    /\ otx.k <= Len(otx.items)
    /\ LET item == otx.items[otx.k]
           qty == GetOr(item.quantity, 1)
           unit == GetOr(item.unit_price, 0)
           line_total == LineTotal(qty, unit)
       IN /\ orderItems' = orderItems \cup
                 {[order |-> otx.order, line |-> otx.k, quantity |-> qty,
                   unit_price |-> unit, total |-> line_total]}
          /\ otx' = [otx EXCEPT !.k = @ + 1, !.total = @ + line_total]
    /\ UNCHANGED orders

(* Lines 349-351: the total is written on the order, the order is saved *)
OrderSave ==
    /\ otx.pc = "items"
    /\ otx.k > Len(otx.items)
    /\ orders' = [orders EXCEPT ![otx.order].total_amount = otx.total]
    /\ otx' = [otx EXCEPT !.pc = "done"]
    /\ UNCHANGED orderItems

----------------------------------------------------------------------------
(* Input sets *)

(* Recipe quantities: absent, negative, zero, positive *)
Quantities == {-1, 0, 1, 2}
(* Initial stock of the created product *)
Units == {0, 1, 2}

RecipeLines ==
    [ingredient : {None} \cup {Some(p) : p \in InitialIds},
     quantity : {None} \cup {Some(q) : q \in Quantities}]

(* Sale items: the product id 0 is the id of no product *)
SaleQuantities == {1, 2, 3}
SalePrices == {1, 2}
SaleLines ==
    [product_id : {0} \cup InitialIds, quantity : SaleQuantities, price : SalePrices]

InitStore ==
    /\ products \in [InitialIds -> [stock : 0..MaxStock, price : {1}]]
    /\ recipes = {}
    /\ nextId = NumProducts + 1
    /\ locks = [p \in AllIds |-> 0]
    /\ ptx = [c \in Creators |-> IdlePtx]
    /\ sales = {}
    /\ saleItems = {}
    /\ nextSaleId = 1
    /\ stx = [s \in Sellers |-> IdleStx]
    /\ inv = IdleInv
    /\ orders = EmptyMap
    /\ orderItems = {}
    /\ otx = IdleOtx
    /\ store0 = [products |-> products, recipes |-> {}, sales |-> {}, saleItems |-> {}]

(* One product creation, every kind of recipe line *)
NextProduct ==
    \/ CreateBegin(1, Units, {1}, SeqsUpTo(RecipeLines, MaxLines), Store) /\ UNCHANGED notProduct
    \/ CreateSkipLine(1) /\ UNCHANGED notProduct
    \/ CreateDeduct(1) /\ UNCHANGED notProduct
    \/ CreateInsufficient(1) /\ UNCHANGED notProduct
    \/ CreateCommit(1) /\ UNCHANGED notProduct

SpecProduct == InitStore /\ [][NextProduct]_vars

(* One sale, every kind of item *)
NextSale ==
    \/ SaleBegin(1, SeqsUpTo(SaleLines, MaxLines), Store) /\ UNCHANGED notSale
    \/ SaleNotFound(1) /\ UNCHANGED notSale
    \/ SaleInsufficient(1) /\ UNCHANGED notSale
    \/ SaleGet(1) /\ UNCHANGED notSale
    \/ SaleCreateItem(1) /\ UNCHANGED notSale
    \/ SaleSave(1) /\ UNCHANGED notSale
    \/ SaleReturn(1) /\ UNCHANGED notSale

SpecSale == InitStore /\ [][NextSale]_vars

(* Concurrent calls: recipes that consume ingredients 1 and 2 and take their
   locks in the two orders, one with a line without quantity; sales of
   products 1 and 2, one with an unknown product id *)
Line(p) == [ingredient |-> Some(p), quantity |-> Some(1)]
NoQuantityLine == [ingredient |-> Some(1), quantity |-> None]
ConcurrentRecipes == {<<Line(1), Line(2)>>, <<Line(2), NoQuantityLine, Line(1)>>}
ConcurrentUnits == {1, 2}
Item(p, q) == [product_id |-> p, quantity |-> q, price |-> 2]
ConcurrentSales == {<<Item(1, 1)>>, <<Item(1, 2)>>, <<Item(2, 1), Item(0, 1)>>}

(* The steps of the product creations, the calls drawn from the given inputs *)
CreateCalls(UnitSet, RecipeSet) ==
    \/ \E c \in Creators :
          CreateBegin(c, UnitSet, {1}, RecipeSet, NoStore) /\ UNCHANGED notProduct
    \/ \E c \in Creators : CreateSkipLine(c) /\ UNCHANGED notProduct
    \/ \E c \in Creators : CreateDeduct(c) /\ UNCHANGED notProduct
    \/ \E c \in Creators : CreateInsufficient(c) /\ UNCHANGED notProduct
    \/ \E c \in Creators : CreateLockError(c) /\ UNCHANGED notProduct
    \/ \E c \in Creators : CreateCommit(c) /\ UNCHANGED notProduct

(* The steps of the sales, the calls drawn from the given inputs *)
SaleCalls(SaleSet) ==
    \/ \E s \in Sellers : SaleBegin(s, SaleSet, NoStore) /\ UNCHANGED notSale
    \/ \E s \in Sellers : SaleNotFound(s) /\ UNCHANGED notSale
    \/ \E s \in Sellers : SaleInsufficient(s) /\ UNCHANGED notSale
    \/ \E s \in Sellers : SaleGet(s) /\ UNCHANGED notSale
    \/ \E s \in Sellers : SaleCreateItem(s) /\ UNCHANGED notSale
    \/ \E s \in Sellers : SaleSave(s) /\ UNCHANGED notSale
    \/ \E s \in Sellers : SaleReturn(s) /\ UNCHANGED notSale

(* Concurrent product creations *)
NextCreate == CreateCalls(ConcurrentUnits, ConcurrentRecipes)

SpecCreate == InitStore /\ [][NextCreate]_vars

(* Concurrent sales *)
NextSales == SaleCalls(ConcurrentSales)

SpecSales == InitStore /\ [][NextSales]_vars

(* Concurrent product creations and sales of the same products *)
MixedRecipes == {<<Line(1)>>, <<NoQuantityLine, Line(2)>>}
MixedSales == {<<Item(1, 2)>>, <<Item(2, 1), Item(0, 1)>>}

Next ==
    \/ CreateCalls(ConcurrentUnits, MixedRecipes)
    \/ SaleCalls(MixedSales)

Spec == InitStore /\ [][Next]_vars

(* Inventory changes: every type with an absent quantity, a number, the text
   of a number, or a text that is no number *)
MaxAbs == 12
ChangeTypes == {"Entrada", "Salida"}
BadTexts == {<<>>, <<"a">>, <<"-">>, <<"1", "a">>}
InventoryQuantities ==
    {[quantity |-> PyNone, denotes |-> None]}
    \cup {[quantity |-> PyNum(n), denotes |-> Some(n)] : n \in (0 - MaxAbs)..MaxAbs}
    \cup {[quantity |-> PyStr(PyToStr(PyNum(n))), denotes |-> Some(n)] :
             n \in (0 - MaxAbs)..MaxAbs}
    \cup {[quantity |-> PyStr(<<"+">> \o PyToStr(PyNum(n))), denotes |-> Some(n)] :
             n \in 0..MaxAbs}
    \cup {[quantity |-> PyStr(t), denotes |-> None] : t \in BadTexts}

NoStoreVars ==
    /\ products = EmptyMap
    /\ recipes = {}
    /\ nextId = 1
    /\ locks = EmptyMap
    /\ ptx = [c \in Creators |-> IdlePtx]
    /\ sales = {}
    /\ saleItems = {}
    /\ nextSaleId = 1
    /\ stx = [s \in Sellers |-> IdleStx]
    /\ store0 = NoStore

InitInventory ==
    /\ NoStoreVars
    /\ \E change_type \in ChangeTypes, q \in InventoryQuantities :
          inv = [pc |-> "input", runs |-> 0, denotes |-> q.denotes,
                 input |-> [type |-> change_type, quantity |-> q.quantity],
                 attrs |-> [type |-> change_type, quantity |-> q.quantity]]
    /\ orders = EmptyMap
    /\ orderItems = {}
    /\ otx = IdleOtx

notInventory == <<products, recipes, nextId, locks, ptx, sales, saleItems, nextSaleId,
                  stx, orders, orderItems, otx, store0>>

NextInventory ==
    \/ InventoryValidate /\ UNCHANGED notInventory
    \/ InventoryReject /\ UNCHANGED notInventory

SpecInventory == InitInventory /\ [][NextInventory]_vars

(* Orders: items with or without quantity and unit price, a payload total *)
OrderQuantities == {1, 2, 3}
OrderPrices == {0, 5, 10}
OrderLines ==
    [quantity : {None} \cup {Some(q) : q \in OrderQuantities},
     unit_price : {None} \cup {Some(u) : u \in OrderPrices}]
PayloadTotals == {0, 99}

InitOrder ==
    /\ NoStoreVars
    /\ inv = IdleInv
    /\ orders = EmptyMap
    /\ orderItems = {}
    /\ otx = IdleOtx

notOrder == <<products, recipes, nextId, locks, ptx, sales, saleItems, nextSaleId,
              stx, inv, store0>>

NextOrder ==
    \/ OrderBegin(SeqsUpTo(OrderLines, MaxLines), PayloadTotals) /\ UNCHANGED notOrder
    \/ OrderAddItem /\ UNCHANGED notOrder
    \/ OrderSave /\ UNCHANGED notOrder

SpecOrder == InitOrder /\ [][NextOrder]_vars

----------------------------------------------------------------------------
(* What the claims speak about *)

(* A recipe line with a present ingredient p and a quantity > 0 *)
DeductsFrom(line, p) ==
    IF line.ingredient = None \/ line.quantity = None THEN FALSE
    ELSE line.ingredient[1] = p /\ line.quantity[1] > 0

(* The sum of quantity_per_unit * S over the first n lines that deduct from p *)
RECURSIVE SumNeeded(_, _, _, _)
SumNeeded(recipe, S, p, n) ==
    IF n = 0 THEN 0
    ELSE SumNeeded(recipe, S, p, n - 1)
         + (IF DeductsFrom(recipe[n], p) THEN recipe[n].quantity[1] * S ELSE 0)

(* The quantity sold of product p by the first n items *)
RECURSIVE SumSold(_, _, _)
SumSold(items, p, n) ==
    IF n = 0 THEN 0
    ELSE SumSold(items, p, n - 1)
         + (IF items[n].product_id = p THEN items[n].quantity ELSE 0)

RowsOfProduct(pid) == {r \in recipes : r.product = pid}
ItemsOfSale(sale) == {r \in saleItems : r.sale = sale}

(* The line transaction c is at asks for more than the ingredient holds *)
LineShort(c) ==
    /\ InLoop(c)
    /\ LET line == ptx[c].recipe[ptx[c].i]
       IN IF line.ingredient = None \/ line.quantity = None THEN FALSE
          ELSE /\ line.quantity[1] > 0
               /\ TxStock(c, line.ingredient[1]) < line.quantity[1] * ptx[c].stock

(* C1: a creation with initial stock S > 0 that reaches a recipe line whose
   ingredient holds less than quantity_per_unit * S fails, and leaves the store
   as it was before the call: every stock has its original value, also those
   decremented by earlier lines, and neither the product nor a recipe row of it
   exists *)
C1_RollbackComplete ==
    [][\A c \in Creators :
          /\ LineShort(c) => ptx'[c].pc = "failed"
          /\ ptx'[c].pc = "failed" =>
                /\ products' = ptx'[c].pre.products
                /\ recipes' = ptx'[c].pre.recipes
                /\ ptx'[c].pid \notin DOMAIN products'
                /\ {r \in recipes' : r.product = ptx'[c].pid} = {}]_vars

(* A creation failed at its second line after its first line had deducted *)
C1_Witness ==
    /\ ptx[1].pc = "failed"
    /\ ptx[1].ndeduct >= 1
    /\ ptx[1].i = 2
    /\ ptx[1].recipe[1].ingredient # ptx[1].recipe[2].ingredient
    /\ products = ptx[1].pre.products

(* C6: a successful creation lowers each ingredient's stock by exactly the sum
   of quantity_per_unit * S over the lines with that ingredient and a quantity
   > 0 (by nothing when S = 0), stores one recipe row per line, also for the
   lines that deduct nothing, and changes no other product *)
C6_ExactDeduction ==
    \A c \in Creators :
        ptx[c].pc = "done" =>
            LET pre == ptx[c].pre
                S == ptx[c].stock
                recipe == ptx[c].recipe
            IN /\ DOMAIN products = DOMAIN pre.products \cup {ptx[c].pid}
               /\ ptx[c].pid \notin DOMAIN pre.products
               /\ products[ptx[c].pid].stock = S
               /\ \A p \in DOMAIN pre.products :
                     /\ products[p].price = pre.products[p].price
                     /\ products[p].stock =
                           pre.products[p].stock
                           - (IF S > 0 THEN SumNeeded(recipe, S, p, Len(recipe)) ELSE 0)
               /\ RowsOfProduct(ptx[c].pid) =
                     {[product |-> ptx[c].pid, line |-> n,
                       ingredient |-> recipe[n].ingredient,
                       quantity |-> recipe[n].quantity] : n \in 1..Len(recipe)}
               /\ recipes \ RowsOfProduct(ptx[c].pid) = pre.recipes

(* A creation of 2 units succeeded with one line that deducted and one line
   without quantity *)
C6_Witness ==
    /\ ptx[1].pc = "done"
    /\ ptx[1].stock = 2
    /\ Len(ptx[1].recipe) = 2
    /\ ptx[1].recipe[1].quantity = None
    /\ ptx[1].recipe[2] = [ingredient |-> Some(1), quantity |-> Some(1)]
    /\ products[1].stock = ptx[1].pre.products[1].stock - 2
    /\ Cardinality(RowsOfProduct(ptx[1].pid)) = 2

Aborted(s) == stx[s].pc \in {"notfound", "insufficient"}

(* C2: a sale that aborts at item k leaves no partial write: no Sale header, no
   SaleItem of the items before k, and every stock as before the call *)
C2_AbortLeavesNothing ==
    \A s \in Sellers :
        Aborted(s) =>
            /\ stx[s].sale \notin sales
            /\ ItemsOfSale(stx[s].sale) = {}
            /\ products = stx[s].pre.products

(* C7: every item whose product exists with stock >= Q when it is processed
   lowers that product's stock by exactly Q and records exactly one SaleItem
   with quantity Q and the submitted price; prices and other stocks stay *)
C7_SaleLine ==
    \A s \in Sellers :
        /\ stx[s].pc \in {"get", "done", "notfound", "insufficient"} =>
              LET done == stx[s].k - 1
              IN /\ DOMAIN products = DOMAIN stx[s].pre.products
                 /\ \A p \in DOMAIN products :
                       /\ products[p].price = stx[s].pre.products[p].price
                       /\ products[p].stock =
                             stx[s].pre.products[p].stock - SumSold(stx[s].items, p, done)
                 /\ ItemsOfSale(stx[s].sale) =
                       {[sale |-> stx[s].sale, line |-> n,
                         product |-> stx[s].items[n].product_id,
                         quantity |-> stx[s].items[n].quantity,
                         price |-> stx[s].items[n].price] : n \in 1..done}
                 /\ Cardinality(ItemsOfSale(stx[s].sale)) = done
        /\ (AtItem(s) /\ stx[s].items[stx[s].k].product_id \in DOMAIN products) =>
              (products[stx[s].items[stx[s].k].product_id].stock
                  >= stx[s].items[stx[s].k].quantity
               => ENABLED SaleGet(s))

(* A sale of two items of the same product at a price other than the product's *)
C7_Witness ==
    /\ stx[1].pc = "done"
    /\ Len(stx[1].items) = 2
    /\ stx[1].items[1].product_id = 1
    /\ stx[1].items[2].product_id = 1
    /\ stx[1].items[1].price = 2
    /\ products[1].price = 1
    /\ products[1].stock = stx[1].pre.products[1].stock - 2

(* C8: an item whose product holds less than Q when it is processed ends the
   call with the insufficient-stock error: no SaleItem of that item or of a later
   one exists, the product's stock is the one read, and no item goes on to its
   SaleItem with less stock than its quantity *)
C8_RejectedLine ==
    \A s \in Sellers :
        /\ stx[s].pc = "insufficient" =>
              LET item_data == stx[s].items[stx[s].k]
              IN /\ stx[s].product.stock < item_data.quantity
                 /\ products[item_data.product_id].stock = stx[s].product.stock
                 /\ \A r \in ItemsOfSale(stx[s].sale) : r.line < stx[s].k
                 /\ ~ENABLED (SaleGet(s) \/ SaleCreateItem(s) \/ SaleSave(s)
                                 \/ SaleReturn(s))
        /\ stx[s].pc \in {"item", "save"} =>
              stx[s].product.stock >= stx[s].items[stx[s].k].quantity
        /\ (AtItem(s) /\ stx[s].items[stx[s].k].product_id \in DOMAIN products) =>
              (products[stx[s].items[stx[s].k].product_id].stock
                  < stx[s].items[stx[s].k].quantity
               => ~ENABLED SaleGet(s))

(* The second item of a sale was rejected after the first had been sold *)
C8_Witness ==
    /\ stx[1].pc = "insufficient"
    /\ stx[1].k = 2
    /\ stx[1].items[1].product_id = stx[1].items[2].product_id
    /\ stx[1].product.stock > 0
    /\ Cardinality(ItemsOfSale(stx[1].sale)) = 1

(* C3: from a store with every stock >= 0, through every interleaving of sales
   (quantities > 0) and product creations (stock >= 0) that succeed or abort,
   every persisted Product.stock stays >= 0 *)
C3_StockNonNegative ==
    \A p \in DOMAIN products : products[p].stock >= 0

(* A creation and a sale both took from a product and emptied it, and another
   call was refused *)
C3_Witness ==
    /\ \E c \in Creators : ptx[c].pc = "done" /\ ptx[c].ndeduct >= 1
    /\ \E s \in Sellers : stx[s].pc = "done" /\ stx[s].items = <<Item(1, 2)>>
    /\ \E c \in Creators : ptx[c].pc = "failed"
    /\ products[1].stock = 0
    /\ store0.products[1].stock = MaxStock

Finished(c) == ptx[c].pc \in {"done", "failed", "error"}

(* What the committed ones of the first n transactions took from ingredient p *)
RECURSIVE SumCommitted(_, _)
SumCommitted(p, n) ==
    IF n = 0 THEN 0
    ELSE SumCommitted(p, n - 1)
         + (IF ptx[n].pc = "done"
            THEN SumNeeded(ptx[n].recipe, ptx[n].stock, p, Len(ptx[n].recipe))
            ELSE 0)

(* C4: concurrent creations that consume the same ingredient are serialized by
   the row lock: a transaction works on an ingredient only while it holds the
   row's lock, the value it works on is the committed stock less its own
   deductions (never a stale one) and never negative, and when all transactions
   have finished every ingredient's stock is its initial stock less the sum of
   quantity_per_unit * S over exactly the committed transactions *)
C4_SerializedDeductions ==
    /\ \A c \in Creators : \A p \in DOMAIN ptx[c].wstock :
          /\ locks[p] = c
          /\ ptx[c].wstock[p] =
                products[p].stock
                - SumNeeded(ptx[c].recipe, ptx[c].stock, p, ptx[c].i - 1)
          /\ ptx[c].wstock[p] >= 0
    /\ (\A c \in Creators : Finished(c)) =>
          \A p \in InitialIds :
              /\ products[p].stock =
                    store0.products[p].stock - SumCommitted(p, NumCreators)
              /\ products[p].stock >= 0

(* Two creations of 1 unit whose recipes take ingredients 1 and 2 in opposite
   orders both committed, and took the 2 units each ingredient held *)
C4_Witness ==
    /\ ptx[1].pc = "done" /\ ptx[1].recipe = <<Line(1), Line(2)>>
    /\ ptx[2].pc = "done" /\ ptx[2].recipe = <<Line(2), NoQuantityLine, Line(1)>>
    /\ ptx[1].stock = 1 /\ ptx[2].stock = 1
    /\ store0.products[1].stock = 2 /\ store0.products[2].stock = 2
    /\ products[1].stock = 0
    /\ products[2].stock = 0

(* C5: a sale writes back the stock it read less its own quantity, whatever
   the row holds by then, and its SaleItem is recorded: two concurrent sales of
   one product can both read the same stock, both pass the check and both
   write, so that one deduction is lost *)
C5_WritesBackReadValue ==
    [][\A s \in Sellers :
          (stx[s].pc = "save" /\ stx'[s].pc = "get") =>
              /\ products'[stx[s].product.id].stock =
                    stx[s].product.stock - stx[s].items[stx[s].k].quantity
              /\ SaleItemRow(s) \in saleItems']_vars

(* Two sales of product 1 (quantities 1 and 2) read the same stock 2; both
   SaleItems exist, 3 units are sold of 2 and the stock is 2 less one quantity *)
C5_Witness ==
    /\ stx[1].pc = "done" /\ stx[1].items = <<Item(1, 1)>>
    /\ stx[2].pc = "done" /\ stx[2].items = <<Item(1, 2)>>
    /\ store0.products[1].stock = 2
    /\ stx[1].product.stock = 2
    /\ stx[2].product.stock = 2
    /\ products[1].stock = 1
    /\ Cardinality({r \in saleItems : r.product = 1}) = 2

Abs(n) == IF n < 0 THEN 0 - n ELSE n

(* C9: validate stores the magnitude: for every quantity that stands for a
   number q and every type, the quantity returned is |q| and >= 0 (so q and -q
   give the same record), the type is the one submitted, validating the
   returned record again returns the same quantity, and an absent quantity is
   rejected with nothing returned to store *)
C9_StoresMagnitude ==
    /\ inv.pc = "valid" =>
          /\ inv.denotes # None
          /\ inv.attrs.quantity = PyNum(Abs(inv.denotes[1]))
          /\ inv.attrs.quantity.num >= 0
          /\ inv.attrs.type = inv.input.type
    /\ inv.pc = "rejected" =>
          /\ inv.denotes = None
          /\ inv.attrs = inv.input
    /\ (inv.pc = "input" /\ inv.input.quantity = PyNone) => ~ENABLED InventoryValidate
    /\ (inv.pc \in {"input", "valid"} /\ inv.runs < 2 /\ inv.denotes # None)
          => ENABLED InventoryValidate

(* The quantity -5 of an 'Entrada' was stored as 5, and 5 again when the stored
   record was validated *)
C9_Witness ==
    /\ inv.pc = "valid"
    /\ inv.runs = 2
    /\ inv.input = [type |-> "Entrada", quantity |-> PyNum(-5)]
    /\ inv.attrs = [type |-> "Entrada", quantity |-> PyNum(5)]

(* The sum of quantity * unit_price over the first n submitted items *)
RECURSIVE SumSubmitted(_, _)
SumSubmitted(items, n) ==
    IF n = 0 THEN 0
    ELSE SumSubmitted(items, n - 1) + items[n].quantity[1] * items[n].unit_price[1]

OrderItemsOf(order) == {r \in orderItems : r.order = order}

(* The sum of the totals of the OrderItems of the lines 1..n *)
RECURSIVE SumItemTotals(_, _)
SumItemTotals(order, n) ==
    IF n = 0 THEN 0
    ELSE SumItemTotals(order, n - 1)
         + (CHOOSE r \in OrderItemsOf(order) : r.line = n).total

(* C10: after create the Order's persisted total_amount is the sum of
   quantity * unit_price over the submitted items (0 for none), whatever
   total_amount the payload held; there is one OrderItem per submitted item,
   its total is quantity * unit_price, and total_amount is the sum of the
   OrderItem totals *)
C10_ExactTotal ==
    otx.pc = "done" =>
        LET items == otx.items
            rows == OrderItemsOf(otx.order)
        IN /\ Cardinality(rows) = Len(items)
           /\ \A n \in 1..Len(items) : \E r \in rows : r.line = n
           /\ \A r \in rows : r.total = r.quantity * r.unit_price
           /\ orders[otx.order].total_amount = SumItemTotals(otx.order, Len(items))
           /\ (\A n \in 1..Len(items) :
                  items[n].quantity # None /\ items[n].unit_price # None) =>
                 /\ orders[otx.order].total_amount = SumSubmitted(items, Len(items))
                 /\ \A r \in rows :
                       /\ r.quantity = items[r.line].quantity[1]
                       /\ r.unit_price = items[r.line].unit_price[1]

(* The items (3, 10) and (2, 5) with a payload total of 99 persist 40 *)
C10_Witness ==
    /\ otx.pc = "done"
    /\ otx.items = <<[quantity |-> Some(3), unit_price |-> Some(10)],
                     [quantity |-> Some(2), unit_price |-> Some(5)]>>
    /\ otx.payload_total = 99
    /\ orders[otx.order].total_amount = 40

====
